---- MODULE Spec2Model ----
(***************************************************************************)
(* The Difference function of mycodo/functions/difference.py:              *)
(* CustomModule.loop() is polled by its controller thread; when the timer  *)
(* is due it advances the timer by whole periods, reads the last           *)
(* measurements A and B (each within its own max age), subtracts them and  *)
(* writes the difference to the time-series database.                      *)
(*                                                                         *)
(* Time is counted in whole seconds.  A measurement is the pair            *)
(* <<timestamp, value>> that loop() indexes as [0] and [1]; "no            *)
(* measurement" (Python None) is the empty tuple.                          *)
(***************************************************************************)
EXTENDS Integers, Sequences, FiniteSets

VARIABLES
    clock,                      \* time.time()
    timer_loop,                 \* self.timer_loop
    period,                     \* self.period
    measurement_max_age_a,      \* self.measurement_max_age_a
    measurement_max_age_b,      \* self.measurement_max_age_b
    difference_reverse_order,   \* self.difference_reverse_order
    difference_absolute,        \* self.difference_absolute
    stream_a,                   \* measurements stored for select_measurement_a
    stream_b,                   \* measurements stored for select_measurement_b
    written,                    \* values appended by write_influxdb_value
    created,                    \* history: time.time() read by __init__
    fires,                      \* history: loop() calls that passed line 192
    all_present,                \* history: every such call read two measurements
                                \*          and had no failing read or write
    tick,                       \* history: what the last loop() call did
    options,                    \* the value given for 'period' and what its
                                \*   'constraints_pass' check returned
    horizon                     \* the time at which the run is cut off

config == <<period, measurement_max_age_a, measurement_max_age_b,
            difference_reverse_order, difference_absolute, options>>
streams == <<stream_a, stream_b>>
history == <<created, horizon>>
vars == <<clock, timer_loop, config, streams, written, history, fires,
          all_present, tick>>

-----------------------------------------------------------------------------
(* Bounds of the model. *)
MaxTime == 8        \* Spec: the clock runs from 0 to MaxTime
MaxPeriod == 3      \* Spec: self.period ranges over 1..MaxPeriod
MaxLag == 1         \* seconds that can pass between two tests inside loop()
DataMaxTime == 3    \* DataSpec: the clock runs from 0 to DataMaxTime
DataPeriod == 1     \* DataSpec: self.period
MaxAge == 1         \* DataSpec: each max age is 0 or MaxAge
MaxSamples == 2     \* DataSpec: measurements stored per stream

ValuesA == {8}      \* values measured for select_measurement_a
ValuesB == {3}      \* values measured for select_measurement_b

None == << >>
NoTime == 0 - 1

Abs(x) == IF x < 0 THEN -x ELSE x

-----------------------------------------------------------------------------
(* The controllers (SQL objects) whose options are checked. *)
ModControllers == {"controller_1", "controller_2"}

(* Variant of constraints_pass_positive_value: only values below 0 fail. *)
constraints_pass_negative_value(mod_controller, value) ==
    IF value < 0
    THEN [all_passed |-> FALSE, errors |-> <<"Must be a positive value">>,
          mod_controller |-> mod_controller]
    ELSE [all_passed |-> TRUE, errors |-> << >>,
          mod_controller |-> mod_controller]

(* constraints_pass_positive_value, the 'constraints_pass' of 'period':    *)
(* the tuple (all_passed, errors, mod_controller) it returns.              *)
constraints_pass_positive_value(mod_controller, value) ==
    IF value <= 0
    THEN [all_passed |-> FALSE, errors |-> <<"Must be a positive value">>,
          mod_controller |-> mod_controller]
    ELSE [all_passed |-> TRUE, errors |-> << >>,
          mod_controller |-> mod_controller]

(* The option 'period' as given, before and after its check. *)
Unchecked(mod_controller, value) ==
    [value |-> value, mod_controller |-> mod_controller, checked |-> FALSE,
     all_passed |-> FALSE, errors |-> << >>, returned |-> ""]

Checked(option) ==
    LET r == constraints_pass_positive_value(option.mod_controller,
                                             option.value) IN
    [option EXCEPT !.checked = TRUE, !.all_passed = r.all_passed,
                   !.errors = r.errors, !.returned = r.mod_controller]

(* Variant of InitialTimer: the first deadline is one period after         *)
(* creation.                                                               *)
InitialTimer_NextPeriod(now, p) == now + p

(* self.timer_loop = time.time() *)
InitialTimer(now, p) == now

(* Variant of Due: the timer is also due at the very second it names. *)
Due_AtOrAfter(timer, now) == timer <= now

(* Variant of Due: the test of line 192 is missing. *)
Due_Always(timer, now) == TRUE

(* if self.timer_loop < time.time(): *)
Due(timer, now) == timer < now

(* Variant of AdvanceTimer: one period is added, without the while loop. *)
AdvanceTimer_Once(timer, now, p) == timer + p

(* Variant of AdvanceTimer: the timer restarts one period from now. *)
AdvanceTimer_Rephase(timer, now, p) == now + p

(* Variant of AdvanceTimer: the test is made after the addition, so one    *)
(* more period is added than the while loop of line 193 adds.              *)
AdvanceTimer_ExtraPeriod(timer, now, p) ==
    timer + ((now - timer + p - 1) \div p + 1) * p

(* while self.timer_loop < time.time(): self.timer_loop += self.period     *)
(* The loop leaves with the first timer value that is not below the clock  *)
(* value read by its last test.                                            *)
RECURSIVE AdvanceTimer(_, _, _)
AdvanceTimer(timer, now, p) ==
    IF timer < now THEN AdvanceTimer(timer + p, now, p) ELSE timer

(* The additions that the while loop of lines 193-194 can be followed for, *)
(* and the mark of a loop still running after that many.                   *)
Fuel == MaxTime + 2
Unending == 0 - 1

(* Variant of AdvanceCount: the sum is computed and not stored in the      *)
(* timer, so the test never changes.                                       *)
AdvanceCount_NoStore(timer, now, p, fuel) ==
    IF timer < now THEN Unending ELSE 0

(* while self.timer_loop < time.time(): self.timer_loop += self.period     *)
(* The number of additions the loop makes before it leaves, or Unending    *)
(* when it has not left after fuel additions.                              *)
RECURSIVE AdvanceCount(_, _, _, _)
AdvanceCount(timer, now, p, fuel) ==
    IF ~ (timer < now) THEN 0
    ELSE IF fuel = 0 THEN Unending
    ELSE LET n == AdvanceCount(timer + p, now, p, fuel - 1) IN
         IF n = Unending THEN Unending ELSE n + 1

(* AbstractController.get_last_measurement: the most recent stored         *)
(* measurement of the stream if it is not older than max_age, else None.   *)
get_last_measurement(stream, max_age, now) ==
    IF stream = << >> THEN None
    ELSE LET last == stream[Len(stream)] IN
         IF now - last[1] <= max_age THEN last ELSE None

last_measurement_a(now) ==
    get_last_measurement(stream_a, measurement_max_age_a, now)

(* Variant of last_measurement_b: the max age of measurement A is passed. *)
last_measurement_b_AgeOfA(now) ==
    get_last_measurement(stream_b, measurement_max_age_a, now)

last_measurement_b(now) ==
    get_last_measurement(stream_b, measurement_max_age_b, now)

(* Python truth value of what get_last_measurement returned. *)
Truthy(m) == m # None

(* Python's binary minus applied to two measurements: both operands are    *)
(* the sequences that lines 205-206 and 222-223 index, and sequences do    *)
(* not support "-": TypeError.                                             *)
Minus(x, y) == [raised |-> TRUE, value |-> 0]

(* Lines 231-236. *)
Difference(a, b, reverse, absolute) ==
    LET d == IF reverse THEN Minus(b, a) ELSE Minus(a, b) IN
    IF d.raised THEN d
    ELSE IF absolute THEN [raised |-> FALSE, value |-> Abs(d.value)] ELSE d

(* Variant of Emission: a missing measurement makes loop() write 0. *)
Emission_Sentinel(a, b, reverse, absolute, write_fails) ==
    IF Truthy(a) /\ Truthy(b)
    THEN [kind |-> "raise", cause |-> "combine", value |-> 0]
    ELSE [kind |-> "write", cause |-> "", value |-> 0]

(* Lines 230-245: what loop() does with the two measurements it read. *)
Emission(a, b, reverse, absolute, write_fails) ==
    IF Truthy(a) /\ Truthy(b)
    THEN LET d == Difference(a, b, reverse, absolute) IN
         IF d.raised THEN [kind |-> "raise", cause |-> "combine", value |-> 0]
         ELSE IF write_fails
              THEN [kind |-> "raise", cause |-> "write", value |-> d.value]
              ELSE [kind |-> "write", cause |-> "", value |-> d.value]
    ELSE [kind |-> "skip", cause |-> "", value |-> 0]

(* write_influxdb_value: appends the value, stamped with the time of the   *)
(* write.                                                                  *)
write_influxdb_value(db, value, now, fire) ==
    Append(db, [value |-> value, timestamp |-> now, fire |-> fire])

NoTick ==
    [called |-> FALSE, now |-> NoTime, exit |-> NoTime, before |-> NoTime,
     fired |-> FALSE, prev_fire |-> NoTime, last_fire |-> NoTime,
     reads |-> {}, a |-> None, b |-> None, kind |-> "idle", cause |-> "",
     wrote |-> 0]

-----------------------------------------------------------------------------
(* CustomModule.__init__, with the options of 'custom_options'. *)
Unit(periods, ages) ==
    /\ clock = 0
    /\ period \in periods
    /\ timer_loop = InitialTimer(clock, period)
    /\ created = clock
    /\ measurement_max_age_a \in ages
    /\ measurement_max_age_b \in ages
    /\ difference_reverse_order \in BOOLEAN
    /\ difference_absolute \in BOOLEAN
    /\ stream_a = << >>
    /\ stream_b = << >>
    /\ written = << >>
    /\ fires = 0
    /\ all_present = TRUE
    /\ tick = NoTick

(* A unit whose period has passed its check. *)
Construct(periods, ages) ==
    /\ Unit(periods, ages)
    /\ options = Checked(Unchecked("controller_1", period))
    /\ options.all_passed

(* One call of CustomModule.loop().  lag: seconds between the test of line *)
(* 192 and the last test of line 193; fail: the calls that raise.          *)
loop ==
    \E lag \in 0..MaxLag, fail \in SUBSET {"a", "b", "w"} :
        LET now == clock IN
        IF ~ Due(timer_loop, now)
        THEN /\ lag = 0 /\ fail = {}
             /\ tick' = [NoTick EXCEPT !.called = TRUE, !.now = now,
                                       !.exit = now, !.before = timer_loop,
                                       !.last_fire = tick.last_fire]
             /\ UNCHANGED <<clock, timer_loop, config, streams, written,
                            history, fires, all_present>>
        ELSE LET exit == now + lag
                 a == last_measurement_a(exit)
                 b == last_measurement_b(exit)
                 e == IF "a" \in fail
                      THEN [kind |-> "raise", cause |-> "read_a", value |-> 0]
                      ELSE IF "b" \in fail
                      THEN [kind |-> "raise", cause |-> "read_b", value |-> 0]
                      ELSE Emission(a, b, difference_reverse_order,
                                    difference_absolute, "w" \in fail)
             IN
             /\ exit <= horizon
             /\ timer_loop' = AdvanceTimer(timer_loop, exit, period)
             /\ clock' = exit
             /\ fires' = fires + 1
             /\ written' = IF e.kind = "write"
                           THEN write_influxdb_value(written, e.value, exit, now)
                           ELSE written
             /\ all_present' = (all_present /\ fail \cap {"a", "b"} = {}
                                /\ Truthy(a) /\ Truthy(b)
                                /\ e.cause # "write")
             /\ tick' = [called |-> TRUE, now |-> now, exit |-> exit,
                         before |-> timer_loop, fired |-> TRUE,
                         prev_fire |-> tick.last_fire, last_fire |-> now,
                         reads |-> IF "a" \in fail THEN {"a"} ELSE {"a", "b"},
                         a |-> IF "a" \in fail THEN None ELSE a,
                         b |-> IF fail \cap {"a", "b"} # {} THEN None ELSE b,
                         kind |-> e.kind, cause |-> e.cause,
                         wrote |-> IF e.kind = "write" THEN 1 ELSE 0]
             /\ UNCHANGED <<config, streams, history>>

(* Time passes between two calls of loop(). *)
Advance ==
    /\ clock < horizon
    /\ clock' = clock + 1
    /\ UNCHANGED <<timer_loop, config, streams, written, history, fires,
                   all_present, tick>>

(* A stream is ordered by time: a new measurement is newer than the last. *)
Newer(stream, now) ==
    IF stream = << >> THEN TRUE ELSE stream[Len(stream)][1] < now

(* An input stores a new measurement for select_measurement_a. *)
StoreA ==
    /\ Len(stream_a) < MaxSamples
    /\ Newer(stream_a, clock)
    /\ \E v \in ValuesA : stream_a' = Append(stream_a, <<clock, v>>)
    /\ UNCHANGED <<clock, timer_loop, config, stream_b, written, history,
                   fires, all_present, tick>>

(* An input stores a new measurement for select_measurement_b. *)
StoreB ==
    /\ Len(stream_b) < MaxSamples
    /\ Newer(stream_b, clock)
    /\ \E v \in ValuesB : stream_b' = Append(stream_b, <<clock, v>>)
    /\ UNCHANGED <<clock, timer_loop, config, stream_a, written, history,
                   fires, all_present, tick>>

(* The scheduler: the controller thread polls loop() while time passes and *)
(* nothing is stored for either stream.                                    *)
Init ==
    /\ Construct(1..MaxPeriod, {0})
    /\ difference_reverse_order = FALSE
    /\ difference_absolute = FALSE
    /\ horizon = MaxTime

Next == loop \/ Advance

Spec == Init /\ [][Next]_vars

(* The data path: the same, with inputs storing measurements and every     *)
(* setting of the max ages and of the two flags.                           *)
DataInit ==
    /\ Construct({DataPeriod}, {0, MaxAge})
    /\ horizon = DataMaxTime

DataNext == loop \/ Advance \/ StoreA \/ StoreB

DataSpec == DataInit /\ [][DataNext]_vars

(* An input stores a measurement of 0 for select_measurement_a; stored at  *)
(* time 0, its timestamp is 0 as well.                                     *)
StoreZeroA ==
    /\ Len(stream_a) < MaxSamples
    /\ Newer(stream_a, clock)
    /\ stream_a' = Append(stream_a, <<clock, 0>>)
    /\ UNCHANGED <<clock, timer_loop, config, stream_b, written, history,
                   fires, all_present, tick>>

(* An input stores a measurement of 0 for select_measurement_b. *)
StoreZeroB ==
    /\ Len(stream_b) < MaxSamples
    /\ Newer(stream_b, clock)
    /\ stream_b' = Append(stream_b, <<clock, 0>>)
    /\ UNCHANGED <<clock, timer_loop, config, stream_a, written, history,
                   fires, all_present, tick>>

(* The data path with inputs that measure 0. *)
ZeroInit ==
    /\ Construct({DataPeriod}, {0, MaxAge})
    /\ horizon = DataMaxTime

ZeroNext == loop \/ Advance \/ StoreZeroA \/ StoreZeroB

ZeroSpec == ZeroInit /\ [][ZeroNext]_vars

(* The unit is stopped and started again: __init__ runs anew, with the     *)
(* same options; what was written stays in the database.                   *)
Restart ==
    /\ timer_loop' = InitialTimer(clock, period)
    /\ created' = clock
    /\ fires' = 0
    /\ all_present' = TRUE
    /\ tick' = NoTick
    /\ UNCHANGED <<clock, config, streams, written, horizon>>

RestartNext == loop \/ Advance \/ Restart

RestartSpec == Init /\ [][RestartNext]_vars

(* The options: a period of any sign is given for a controller and        *)
(* checked; the unit runs only when the check has passed.                  *)
Validate ==
    /\ ~ options.checked
    /\ options' = Checked(options)
    /\ UNCHANGED <<clock, timer_loop, period, measurement_max_age_a,
                   measurement_max_age_b, difference_reverse_order,
                   difference_absolute, streams, written, history, fires,
                   all_present, tick>>

Started == options.checked /\ options.all_passed

RunLoop == Started /\ loop

RunAdvance == Started /\ Advance

ConfigInit ==
    /\ Unit((0 - MaxPeriod)..MaxPeriod, {0})
    /\ difference_reverse_order = FALSE
    /\ difference_absolute = FALSE
    /\ horizon = MaxTime
    /\ \E c \in ModControllers : options = Unchecked(c, period)

ConfigNext == Validate \/ RunLoop \/ RunAdvance

ConfigSpec == ConfigInit /\ [][ConfigNext]_vars

-----------------------------------------------------------------------------
(* The scheduler.  T is the time from __init__ to the last call of loop(). *)
Elapsed == tick.now - created

(* C1, as stated: once the calls of loop() span T >= period, the number of *)
(* calls that fired is floor(T / period), however the calls are spread.    *)
C1_FiresAreFloor ==
    (tick.called /\ Elapsed >= period) => fires = Elapsed \div period

(* C1, amended: once the calls of loop() span T >= period, at least one    *)
(* call has fired and at most ceil(T / period) have, that is               *)
(* (fires - 1) * period < T; the number depends on how the calls are       *)
(* spread over the time.                                                   *)
C1_FiresBounded ==
    (tick.called /\ Elapsed >= period) =>
        (fires >= 1 /\ (fires - 1) * period < Elapsed)

(* A stall: one call after three periods, and it is the only one to fire. *)
C1_Witness ==
    tick.fired /\ Elapsed >= 3 * period /\ fires = 1

(* C2, as stated: timer_loop is the creation time plus one period for      *)
(* every call that fired.                                                  *)
C2_OnePeriodPerFire ==
    timer_loop = created + fires * period

(* C2, amended: timer_loop is the creation time plus a whole number k of   *)
(* periods with k >= the number of calls that fired; k is larger as soon   *)
(* as one call caught up more than one period.                             *)
C2_WholePeriods ==
    /\ (timer_loop - created) % period = 0
    /\ (timer_loop - created) \div period >= fires

C2_Witness ==
    fires >= 2 /\ (timer_loop - created) \div period > fires

(* C3, as stated: a call fires if and only if now >= timer_loop, so it     *)
(* fires when now equals timer_loop.                                       *)
C3_FiresAtOrAfter ==
    tick.called => (tick.fired <=> tick.now >= tick.before)

(* C3, amended: a call fires if and only if now > timer_loop; it does not  *)
(* fire when now <= timer_loop, in particular not when now equals          *)
(* timer_loop.                                                             *)
C3_FiresAfter ==
    tick.called => (tick.fired <=> tick.now > tick.before)

(* A call at the very second of a deadline later than creation: no fire. *)
C3_Witness ==
    tick.called /\ ~ tick.fired /\ tick.now = tick.before /\ tick.now > created

(* C4, as stated: after a call that fired, timer_loop is strictly greater  *)
(* than the now of that call.                                              *)
C4_StrictlyAfterNow ==
    tick.fired => timer_loop > tick.now

(* C4, amended: after a call that fired, timer_loop is greater than or     *)
(* equal to the now of that call (equal when now falls on a deadline), and *)
(* a second call at the same now does not fire.                            *)
C4_NotBeforeNow ==
    /\ [](tick.fired => timer_loop >= tick.exit /\ tick.exit >= tick.now)
    /\ [][(tick.fired /\ clock = tick.exit /\ tick' # tick) => ~ tick'.fired]_vars

(* A call fired and left timer_loop equal to now; the next call, at the    *)
(* same now, did not fire.                                                 *)
C4_Witness ==
    /\ tick.called /\ ~ tick.fired
    /\ tick.now = tick.last_fire /\ timer_loop = tick.now

(* The period window of a time later than creation.  WindowFrom counts the *)
(* windows [created + k*period, created + (k+1)*period), WindowUpTo the    *)
(* windows (created + k*period, created + (k+1)*period].                   *)
WindowFrom(t) == (t - created) \div period
WindowUpTo(t) == (t - created - 1) \div period

(* C5, as stated: at every time the calls that fired number at most        *)
(* floor((now - created) / period) + 1, and no two of them fall in the     *)
(* same period window counted from creation.                               *)
C5_OnePerWindowFrom ==
    /\ fires <= (clock - created) \div period + 1
    /\ (tick.fired /\ tick.prev_fire # NoTime) =>
           WindowFrom(tick.prev_fire) < WindowFrom(tick.now)

(* C5, amended: the same, with the windows closed at their end: no two     *)
(* calls that fired fall in the same window                                *)
(* (created + k*period, created + (k+1)*period]; a call exactly on a       *)
(* deadline belongs to the window that ends there.  A stall of k periods   *)
(* is followed by one fire.                                                *)
C5_OnePerWindowUpTo ==
    /\ fires <= (clock - created) \div period + 1
    /\ (tick.fired /\ tick.prev_fire # NoTime) =>
           WindowUpTo(tick.prev_fire) < WindowUpTo(tick.now)

(* A second fire that follows a stall of at least two periods. *)
C5_Witness ==
    /\ tick.fired /\ tick.prev_fire # NoTime
    /\ tick.now >= tick.before + 2 * period
    /\ fires = 2

-----------------------------------------------------------------------------
(* The data path, under DataSpec. *)
Fired == fires' = fires + 1           \* this step is a call of loop() that fired

ReadFailed == tick.cause \in {"read_a", "read_b"}

(* The difference of the values of two measurements, lines 231-236 as the  *)
(* function documents them ("calculates the difference").                  *)
ValueDifference(a, b, reverse, absolute) ==
    LET raw == IF reverse THEN b[2] - a[2] ELSE a[2] - b[2] IN
    IF absolute THEN Abs(raw) ELSE raw

(* C6: a call that fired and read two measurements writes a.value -        *)
(* b.value, or b.value - a.value with reverse order, or the absolute value *)
(* of that with absolute difference (unless the write itself fails).       *)
C6_DifferenceWritten ==
    (tick.fired /\ Truthy(tick.a) /\ Truthy(tick.b) /\ tick.cause # "write") =>
        /\ tick.kind = "write"
        /\ written # << >>
        /\ written[Len(written)].value =
               ValueDifference(tick.a, tick.b, difference_reverse_order,
                               difference_absolute)

(* C7: a call that fired and found measurement A or B missing or too old   *)
(* writes nothing, whatever the two flags are.                             *)
C7_AbsentNoWrite ==
    [][(Fired /\ (tick'.a = None \/ tick'.b = None)) =>
           (written' = written /\ tick'.kind # "write")]_vars

(* Both reads returned, B is missing, and the call of loop() skipped the   *)
(* write with both flags set.                                              *)
C7_Witness ==
    /\ tick.fired /\ tick.reads = {"a", "b"} /\ ~ ReadFailed
    /\ Truthy(tick.a) /\ tick.b = None
    /\ tick.kind = "skip" /\ written = << >>
    /\ difference_reverse_order /\ difference_absolute

(* C8: when every call that fired read two measurements and no read or     *)
(* write failed, one value is written per call that fired, stamped at or   *)
(* after the time of the call.                                             *)
C8_OneValuePerFire ==
    all_present =>
        /\ Len(written) = fires
        /\ \A i \in DOMAIN written : written[i].timestamp >= written[i].fire

(* The newest measurement of a stream. *)
Newest(stream) ==
    CHOOSE m \in { stream[i] : i \in DOMAIN stream } :
        \A i \in DOMAIN stream : stream[i][1] <= m[1]

(* What a read at time now has to return: the newest measurement if its    *)
(* age is at most max_age, nothing otherwise.                              *)
Accepted(stream, max_age, now) ==
    IF stream # << >> /\ now - Newest(stream)[1] <= max_age
    THEN Newest(stream) ELSE None

(* C9: each read of a call that fired returns the newest measurement of    *)
(* its own stream if and only if its age is at most the max age of that    *)
(* stream (an age equal to the max age is accepted), and nothing else.     *)
C9_NewestWithinOwnAge ==
    [][Fired =>
        /\ tick'.cause # "read_a" =>
               tick'.a = Accepted(stream_a, measurement_max_age_a, tick'.exit)
        /\ tick'.cause \notin {"read_a", "read_b"} =>
               tick'.b = Accepted(stream_b, measurement_max_age_b, tick'.exit)
      ]_vars

(* A is accepted at an age equal to its max age, and is the newer of two   *)
(* stored measurements; B, stored at the same time as that one, is too old *)
(* for its own, smaller max age.                                           *)
C9_Witness ==
    /\ tick.fired /\ ~ ReadFailed
    /\ Len(stream_a) = 2 /\ tick.a = stream_a[2]
    /\ tick.exit - tick.a[1] = measurement_max_age_a
    /\ measurement_max_age_b < measurement_max_age_a
    /\ stream_b # << >> /\ stream_b[Len(stream_b)][1] = tick.a[1]
    /\ tick.b = None

(* C10: no failure leaves loop(): a call of loop() never ends by raising,  *)
(* and a call that fires and reads two measurements writes a value.        *)
C10_NoFailureEscapes ==
    /\ tick.kind # "raise"
    /\ (tick.fired /\ Truthy(tick.a) /\ Truthy(tick.b)) => tick.kind = "write"

-----------------------------------------------------------------------------
(* Failures inside a call of loop(). *)

(* C11, as stated: a call that fired and whose read of A or B failed wrote *)
(* nothing and left timer_loop advanced past the now of the call.          *)
C11_TimerPastNow ==
    (tick.fired /\ ReadFailed) => (tick.wrote = 0 /\ timer_loop > tick.now)

(* C11, amended: a call that fired and whose read of A or B failed ends at *)
(* that read (B is not read after A failed), writes nothing, and leaves    *)
(* timer_loop advanced to or past now; the next call that fires comes only *)
(* when now is after timer_loop, not at the next poll.                     *)
C11_AbandonedUntilDeadline ==
    /\ [][(Fired /\ tick'.cause \in {"read_a", "read_b"}) =>
            /\ written' = written
            /\ tick'.kind = "raise"
            /\ tick'.reads = (IF tick'.cause = "read_a" THEN {"a"}
                                                        ELSE {"a", "b"})
            /\ timer_loop' >= clock']_vars
    /\ [][(tick.fired /\ ReadFailed /\ Fired) => clock > timer_loop]_vars

(* The read of B failed in a call that left timer_loop equal to now after  *)
(* a stall of two periods or more.                                         *)
C11_Witness ==
    /\ tick.fired /\ tick.cause = "read_b" /\ tick.reads = {"a", "b"}
    /\ timer_loop = tick.exit /\ tick.exit >= tick.before + 2 * period
    /\ written = << >>

-----------------------------------------------------------------------------
(* The options, under ConfigSpec. *)

C14_CatchUpTerminates ==
    /\ tick.fired =>
           LET k == AdvanceCount(tick.before, tick.exit, period, Fuel) IN
           /\ period > 0
           /\ k # Unending /\ k >= 1
           /\ (k - 1) * period < tick.exit - tick.before
           /\ tick.exit - tick.before <= k * period
           /\ timer_loop = tick.before + k * period
           /\ "a" \in tick.reads
    /\ (options.checked /\ options.value <= 0) =>
           \A now \in (timer_loop + 1)..horizon :
               AdvanceCount(timer_loop, now, options.value, Fuel) = Unending

(* A call that caught up three periods of 2 seconds and went on to read. *)
C14_Witness ==
    /\ tick.fired /\ period = 2 /\ timer_loop = tick.before + 3 * period
    /\ tick.reads = {"a", "b"}

-----------------------------------------------------------------------------
(* What a call of loop() changes. *)

(* C15: a call of loop() that does not fire, and every call made before    *)
(* the deadline, changes nothing: timer_loop is unchanged, no measurement  *)
(* is read and nothing is written.                                         *)
C15_NoFireNoChange ==
    [][(tick' # tick /\ (~ tick'.fired \/ clock < timer_loop)) =>
           /\ ~ tick'.fired
           /\ timer_loop' = timer_loop
           /\ tick'.reads = {} /\ tick'.kind = "idle"
           /\ written' = written
           /\ fires' = fires /\ clock' = clock]_vars

(* A call made before the deadline, after an earlier call has fired. *)
C15_Witness ==
    /\ tick.called /\ ~ tick.fired /\ tick.now < tick.before
    /\ fires >= 1 /\ timer_loop = tick.before /\ tick.reads = {}

(* C16: timer_loop never decreases; only a call of loop() that fires       *)
(* changes it, and what it becomes is decided by the advance of lines      *)
(* 193-194 alone (the first timer_loop + k * period that is not below      *)
(* now), whatever the reads, the subtraction and the write do afterwards.  *)
C16_OnlyAdvanceMovesTimer ==
    [][/\ timer_loop' >= timer_loop
       /\ timer_loop' # timer_loop => Fired
       /\ Fired => /\ timer_loop' > timer_loop
                   /\ (timer_loop' - timer_loop) % period = 0
                   /\ timer_loop' >= tick'.exit
                   /\ timer_loop' - period < tick'.exit]_vars

(* The subtraction raised in a call that had caught up two periods. *)
C16_Witness ==
    /\ tick.fired /\ tick.kind = "raise" /\ tick.cause = "combine"
    /\ timer_loop = tick.before + 2 * period

-----------------------------------------------------------------------------
(* Construction and restart, under RestartSpec. *)

(* C17, as stated: timer_loop starts at the creation time, so the first    *)
(* call of loop() at or after creation fires.                              *)
C17_FirstCallFires ==
    /\ ~ tick.called => timer_loop = created
    /\ (tick.called /\ tick.before = created /\ tick.now >= created) =>
           tick.fired

(* C17, amended: timer_loop starts at the creation time of this run (not   *)
(* one period later, and not at a value of an earlier run), so the first   *)
(* call of loop() later than creation fires without waiting a period,      *)
(* while a call at the very time of creation does not fire; after a        *)
(* restart the deadlines are whole periods from the restart time.          *)
C17_StartsAtCreation ==
    /\ ~ tick.called => timer_loop = created
    /\ (tick.called /\ tick.before = created) =>
           (tick.fired <=> tick.now > created)
    /\ (timer_loop - created) % period = 0

(* A unit restarted off the phase of its first run fired less than one     *)
(* period after the restart.                                               *)
C17_Witness ==
    /\ created > 0 /\ created % period # 0
    /\ tick.fired /\ tick.before = created
    /\ tick.now - created < period

(* C18: in every state timer_loop is the creation time plus a whole,       *)
(* non-negative number of periods, however long the stalls were.           *)
C18_PhaseKept ==
    /\ timer_loop >= created
    /\ \E k \in 0..(horizon + MaxPeriod) : timer_loop = created + k * period

(* A restarted unit with period 3 caught up three periods or more and      *)
(* landed beyond now.                                                      *)
C18_Witness ==
    /\ created > 0 /\ period = 3 /\ tick.fired
    /\ timer_loop >= tick.before + 3 * period
    /\ timer_loop > tick.exit

(* C19: right after a call of loop() that fired, timer_loop is not before  *)
(* now and at most one period after it (in fact less than one period),     *)
(* however long the stall before the call was.                             *)
C19_NoOvershoot ==
    [][Fired => /\ timer_loop' - clock' <= period
                /\ timer_loop' - clock' >= 0
                /\ timer_loop' - period < clock']_vars

(* After a stall of more than two periods of 3 seconds the next deadline   *)
(* is 2 seconds away.                                                      *)
C19_Witness ==
    /\ tick.fired /\ period = 3
    /\ tick.exit - tick.before > 2 * period
    /\ timer_loop - clock = period - 1

-----------------------------------------------------------------------------
(* Measurements of 0, under ZeroSpec. *)

(* The first half of C20: a call that fired, with both reads returning and *)
(* both streams holding a measurement young enough, does not take the      *)
(* branch of a missing measurement, though every value is 0.               *)
ZeroIsPresent ==
    [][(Fired /\ tick'.cause \notin {"read_a", "read_b"}
              /\ Accepted(stream_a, measurement_max_age_a, clock') # None
              /\ Accepted(stream_b, measurement_max_age_b, clock') # None) =>
           (Truthy(tick'.a) /\ Truthy(tick'.b) /\ tick'.kind # "skip")]_vars

(* C20: a call that fired with both reads returning a measurement young    *)
(* enough whose value is 0 (and whose timestamp may be 0) treats both as   *)
(* present and writes a value instead of skipping.                         *)
C20_ZeroSamplesEmit ==
    [][(Fired /\ tick'.cause \notin {"read_a", "read_b", "write"}
              /\ Accepted(stream_a, measurement_max_age_a, clock') # None
              /\ Accepted(stream_b, measurement_max_age_b, clock') # None) =>
           /\ Truthy(tick'.a) /\ Truthy(tick'.b)
           /\ tick'.a[2] = 0 /\ tick'.b[2] = 0
           /\ tick'.kind = "write"
           /\ Len(written') = Len(written) + 1]_vars

====
